---- MODULE Spec2Model ----
(***************************************************************************)
(* Child Profile Service (src/app.py): the access-token authenticator      *)
(* (token_required), the linking-code codec (generate_linking_code,        *)
(* verify_linking_code) and the gateway handlers that forward to the       *)
(* DB Interact service.                                                    *)
(*                                                                         *)
(* Time is counted in ticks, TicksPerSecond ticks to the second, so that   *)
(* the clock has the sub-second resolution of datetime.utcnow() while the  *)
(* exp/iat claims of a JWT are whole seconds (NumericDate).                *)
(***************************************************************************)
EXTENDS Integers, Sequences, FiniteSets, TLC

VARIABLES
    config,     \* app.config, loaded once at import time
    clock,      \* the wall clock, in ticks
    codes,      \* linking codes the gateway has handed out in 201 responses
    children,   \* the DB Interact service's child records
    pc,         \* position of the request in flight: idle, wait, done
    req,        \* the inbound request
    at,         \* the clock when the request was received
    g,          \* flask.g of the request: current_user_id/role/token
    ran,        \* whether the route handler body was entered
    calls,      \* the calls this request made to DB Interact, in order
    replies,    \* DB Interact's answers to them, in order
    resp,       \* the response sent to the client
    other       \* a second request in flight: its pc, req, at, g, ran, calls,
                \* replies and resp, while the thread that serves it is not running

vars == <<config, clock, codes, children, pc, req, at, g, ran, calls, replies, resp, other>>

----------------------------------------------------------------------------
(* Bounds of the model *)

TicksPerSecond == 2
MaxSlack == 1
MaxCodes == 2

(* timedelta(hours=24), in seconds *)
LINKING_CODE_EXPIRATION == 86400

(* The clock runs to MaxSlack ticks past one validity window *)
MaxClock == LINKING_CODE_EXPIRATION * TicksPerSecond + MaxSlack

(* Python's None, and a claim or key that is absent *)
Null == "None"

----------------------------------------------------------------------------
(* JSON Web Tokens as PyJWT builds and reads them *)

(* HMAC-SHA256 idealised: a signature names the key and the signed payload *)
HS256(key, payload) == [key |-> key, msg |-> payload]

Claims(type, sub, role, child_id, exp, iat) ==
    [type |-> type, sub |-> sub, role |-> role, child_id |-> child_id,
     exp |-> exp, iat |-> iat]

NoClaims == Claims(Null, Null, Null, Null, 0, 0)

(* timegm(dt.utctimetuple()): a datetime becomes whole seconds, the
   microseconds are dropped *)
NumericDate(ticks) == ticks \div TicksPerSecond

(* jwt.encode(payload, key, algorithm="HS256"): datetimes in exp and iat are
   converted to NumericDate before signing *)
jwt_encode(payload, key) ==
    LET p == [payload EXCEPT !.exp = NumericDate(payload.exp),
                             !.iat = NumericDate(payload.iat)]
    IN  [wire |-> "jwt", payload |-> p, sig |-> HS256(key, p)]

(* A string that is not a JWT, and the empty string *)
NotAJwt == [wire |-> "garbage", payload |-> NoClaims, sig |-> HS256(Null, NoClaims)]
EmptyString == [wire |-> "empty", payload |-> NoClaims, sig |-> HS256(Null, NoClaims)]

(* not token / not linking_code: Python truthiness of the string *)
Falsy(token) == token.wire \in {"empty", "none"}

(* jwt.decode that lets a token pass at the very second of its exp *)
jwt_decode_lenient(token, key, now) ==
    IF token.wire # "jwt"
    THEN [exc |-> "InvalidTokenError", payload |-> NoClaims]
    ELSE IF token.sig # HS256(key, token.payload)
    THEN [exc |-> "InvalidTokenError", payload |-> NoClaims]
    ELSE IF token.payload.exp * TicksPerSecond < now
    THEN [exc |-> "ExpiredSignatureError", payload |-> NoClaims]
    ELSE IF token.payload.iat * TicksPerSecond > now
    THEN [exc |-> "InvalidTokenError", payload |-> NoClaims]
    ELSE [exc |-> "none", payload |-> token.payload]

(* jwt.decode called with options={"verify_signature": False} *)
jwt_decode_unverified(token, key, now) ==
    IF token.wire # "jwt"
    THEN [exc |-> "InvalidTokenError", payload |-> NoClaims]
    ELSE IF token.payload.exp * TicksPerSecond <= now
    THEN [exc |-> "ExpiredSignatureError", payload |-> NoClaims]
    ELSE IF token.payload.iat * TicksPerSecond > now
    THEN [exc |-> "InvalidTokenError", payload |-> NoClaims]
    ELSE [exc |-> "none", payload |-> token.payload]

(* jwt.decode(token, key, algorithms=["HS256"]) at time now (ticks): the
   exception it raises, or "none" and the payload.  The signature is checked
   before the claims; exp <= now is expired; iat in the future is immature. *)
jwt_decode(token, key, now) ==
    IF token.wire # "jwt"
    THEN [exc |-> "InvalidTokenError", payload |-> NoClaims]
    ELSE IF token.sig # HS256(key, token.payload)
    THEN [exc |-> "InvalidTokenError", payload |-> NoClaims]
    ELSE IF token.payload.exp * TicksPerSecond <= now
    THEN [exc |-> "ExpiredSignatureError", payload |-> NoClaims]
    ELSE IF token.payload.iat * TicksPerSecond > now
    THEN [exc |-> "InvalidTokenError", payload |-> NoClaims]
    ELSE [exc |-> "none", payload |-> token.payload]

----------------------------------------------------------------------------
(* The linking-code codec *)

(* Python's None where a token string is expected *)
NoToken == [wire |-> "none", payload |-> NoClaims, sig |-> HS256(Null, NoClaims)]

(* jwt.encode raises (TypeError) when the key is not a string *)
EncodeRaises(key) == key = Null

(* generate_linking_code that forgets the type claim *)
generate_linking_code_untyped(child_id, now) ==
    IF EncodeRaises(config.JWT_SECRET_KEY) THEN NoToken
    ELSE jwt_encode(Claims(Null, Null, Null, child_id,
                           now + config.LINKING_CODE_EXPIRATION * TicksPerSecond, now),
                    config.JWT_SECRET_KEY)

(* generate_linking_code(child_id) at time now (ticks): the code, or None
   when jwt.encode raised *)
generate_linking_code(child_id, now) ==
    IF EncodeRaises(config.JWT_SECRET_KEY) THEN NoToken
    ELSE jwt_encode(Claims(config.LINKING_CODE_TYPE_CLAIM, Null, Null, child_id,
                           now + config.LINKING_CODE_EXPIRATION * TicksPerSecond, now),
                    config.JWT_SECRET_KEY)

(* An exception that leaves a function *)
Raised == "<raised>"

(* verify_linking_code that keeps a code alive past its exp once a
   supervisor was linked to its child *)
verify_linking_code_renewed(code, now) ==
    LET d == jwt_decode(code, config.JWT_SECRET_KEY, now) IN
    IF d.exc = "ExpiredSignatureError"
    THEN IF \E c \in DOMAIN children :
                c = code.payload.child_id /\ children[c].supervisor_ids # {}
         THEN code.payload.child_id
         ELSE Null
    ELSE IF d.exc = "InvalidTokenError" THEN Null
    ELSE IF d.exc # "none" THEN Null
    ELSE IF d.payload.type # config.LINKING_CODE_TYPE_CLAIM THEN Null
    ELSE IF d.payload.child_id = Null \/ d.payload.child_id = "" THEN Null
    ELSE d.payload.child_id

(* verify_linking_code that turns down a code once a supervisor was linked to
   its child *)
verify_linking_code_single_use(code, now) ==
    LET d == jwt_decode(code, config.JWT_SECRET_KEY, now) IN
    IF d.exc = "ExpiredSignatureError" THEN Null
    ELSE IF d.exc = "InvalidTokenError" THEN Null
    ELSE IF d.exc # "none" THEN Null
    ELSE IF d.payload.type # config.LINKING_CODE_TYPE_CLAIM THEN Null
    ELSE IF d.payload.child_id = Null \/ d.payload.child_id = "" THEN Null
    ELSE IF \E c \in DOMAIN children :
                c = d.payload.child_id /\ children[c].supervisor_ids # {} THEN Null
    ELSE d.payload.child_id

(* verify_linking_code(code) at time now: the child_id, or None *)
verify_linking_code(code, now) ==
    LET d == jwt_decode(code, config.JWT_SECRET_KEY, now) IN
    IF d.exc = "ExpiredSignatureError" THEN Null
    ELSE IF d.exc = "InvalidTokenError" THEN Null
    ELSE IF d.exc # "none" THEN Null
    ELSE IF d.payload.type # config.LINKING_CODE_TYPE_CLAIM THEN Null
    ELSE IF d.payload.child_id = Null \/ d.payload.child_id = "" THEN Null
    ELSE d.payload.child_id

----------------------------------------------------------------------------
(* Users, the identity provider's tokens and what a client can send *)

Parents == {"p1", "p2"}
Teachers == {"t1", "t2"}

(* The child ids a linking code may name, and those the store has to give
   out. A route's <child_id> ranges over StoreIds: the id is unknown to the
   store until a create call has assigned it, and known afterwards. *)
ChildIds == {"c1", "c2"}
StoreIds == {"c1"}

(* The secret every service of the deployment shares (JWT_SECRET_KEY) *)
SharedSecret == "shared_jwt_secret"

(* An exp beyond every clock value of the model *)
FarFuture == NumericDate(MaxClock) + 1

Signed(claims, key) == [wire |-> "jwt", payload |-> claims, sig |-> HS256(key, claims)]

AccessToken(sub, role, exp) ==
    Signed(Claims("access", sub, role, Null, exp, 0), SharedSecret)

(* Access tokens in good standing *)
GoodTokens ==
    {AccessToken(u, "parent", FarFuture) : u \in Parents}
    \cup {AccessToken(u, "teacher", FarFuture) : u \in Teachers}

(* Access tokens the authenticator has to turn away *)
ShortLived == AccessToken("t1", "teacher", 1)
RefreshToken == Signed(Claims("refresh", "p1", "parent", Null, FarFuture, 0), SharedSecret)
NoSubToken == AccessToken(Null, "teacher", FarFuture)
NoRoleToken == AccessToken("p1", Null, FarFuture)
ForgedToken == Signed(Claims("access", "t1", "teacher", Null, FarFuture, 0), "attacker_key")

(* Access tokens, well signed and unexpired, whose role, or whose sub and
   role, are the empty string: present in the payload, so payload.get() is
   not None *)
EmptySubToken == AccessToken("", "", FarFuture)
EmptyRoleToken == AccessToken("p1", "", FarFuture)

(* Tokens another service signed with the shared secret, typed as linking
   codes but naming no child *)
NoChildCode == Signed(Claims("linking_code", Null, Null, Null, FarFuture, 0), SharedSecret)
EmptyChildCode == Signed(Claims("linking_code", Null, Null, "", FarFuture, 0), SharedSecret)

(* An access token of the identity provider that also carries a child_id
   claim: only its type tells it from a linking code *)
ChildAccessToken == Signed(Claims("access", "p1", "parent", "c1", FarFuture, 0), SharedSecret)

(* A code with a byte of its signature flipped, and one whose payload was
   rewritten to name another child under the old signature *)
FlipSignature(code) == [code EXCEPT !.sig.key = "flipped"]
RewriteChild(code, c) == [code EXCEPT !.payload.child_id = c]

Tampered(code) ==
    {FlipSignature(code)} \cup {RewriteChild(code, c) : c \in ChildIds \ {code.payload.child_id}}

(* Everything a client may put after "Bearer " *)
BearerTokens ==
    GoodTokens \cup {ShortLived, RefreshToken, NoSubToken, NoRoleToken, ForgedToken,
                     EmptySubToken, EmptyRoleToken, NotAJwt, EmptyString}
    \cup codes

(* Everything a client may send as linking_code *)
LinkingCodes ==
    codes \cup UNION {Tampered(c) : c \in codes}
    \cup {AccessToken("t1", "teacher", FarFuture), ChildAccessToken, NoChildCode,
          EmptyChildCode, NotAJwt, EmptyString}

(* The Authorization header: absent, without the "Bearer " prefix, or
   "Bearer <token>" *)
Header(kind, token) == [kind |-> kind, token |-> token]

GoodHeaders == {Header("bearer", t) : t \in GoodTokens}

Headers ==
    {Header("absent", NoToken)}
    \cup {Header("noprefix", t) : t \in {AccessToken("p1", "parent", FarFuture)}}
    \cup {Header("bearer", t) : t \in BearerTokens}

(* The requests to a route: every body under a token in good standing, and
   every other header with the bodies in wellformed *)
Inputs(bodies, wellformed) ==
    (GoodHeaders \X bodies) \cup ((Headers \ GoodHeaders) \X wellformed)

----------------------------------------------------------------------------
(* Bodies and responses.  A message is the fixed text of the handler plus,
   for relayed errors, the reason or the status it appends. *)

Msg(text) == [text |-> text, reason |-> Null, status |-> 0]
MsgReason(text, reason) == [text |-> text, reason |-> reason, status |-> 0]
MsgStatus(text, status) == [text |-> text, reason |-> Null, status |-> status]
NoMsg == Msg(Null)

(* A child record of the store: its _id, the parent who created it, its
   supervisor_ids and the keys last written to it; NoRecord is no record *)
ChildRecord(id, owner, supervisor_ids, data) ==
    [id |-> id, owner |-> owner, supervisor_ids |-> supervisor_ids, data |-> data]

NoRecord == ChildRecord(Null, Null, {}, {})

(* A JSON object body: its "message", "child_id" and "linking_code" keys and,
   for a child read from the store, the record.  kind "text" is a body that
   is not JSON, kind "array" a JSON value that is not an object. *)
JsonBody(message, child_id, linking_code, record) ==
    [kind |-> "object", message |-> message, child_id |-> child_id,
     linking_code |-> linking_code, record |-> record, text |-> Null]

TextBody(text) ==
    [kind |-> "text", message |-> NoMsg, child_id |-> Null,
     linking_code |-> NoToken, record |-> NoRecord, text |-> text]

ArrayBody(text) ==
    [kind |-> "array", message |-> NoMsg, child_id |-> Null,
     linking_code |-> NoToken, record |-> NoRecord, text |-> text]

NoBody == TextBody(Null)

(* jsonify({"message": m}), status, as sent by the application's own code *)
Response(status, body) == [status |-> status, body |-> body, by |-> "app"]
Message(status, text) == Response(status, JsonBody(Msg(text), Null, NoToken, NoRecord))

(* An exception left the view function: Flask answers 500 itself *)
Unhandled == [status |-> 500, body |-> NoBody, by |-> "flask"]

NoResponse == [status |-> 0, body |-> NoBody, by |-> Null]

----------------------------------------------------------------------------
(* token_required *)

NoUser == [current_user_id |-> Null, current_user_role |-> Null,
           current_user_token |-> NoToken]

(* The token taken from the header whatever its prefix *)
BearerOf_anyprefix(header) == header.token

(* auth_header.split(" ")[1] when the header starts with "Bearer " *)
BearerOf(header) == IF header.kind = "bearer" THEN header.token ELSE NoToken

Reject(response) == [pass |-> FALSE, resp |-> response, g |-> NoUser]

(* token_required without the check of the type claim *)
token_required_anytype(header, now) ==
    LET token == BearerOf(header)
        d == jwt_decode(token, config.JWT_SECRET_KEY, now)
    IN  IF Falsy(token) THEN Reject(Message(401, "Token is missing!"))
        ELSE IF config.JWT_SECRET_KEY \in {Null, ""}
        THEN Reject(Message(500, "Server configuration error"))
        ELSE IF d.exc = "ExpiredSignatureError"
        THEN Reject(Message(401, "Access token has expired!"))
        ELSE IF d.exc = "InvalidTokenError"
        THEN Reject(Message(401, "Access token is invalid!"))
        ELSE IF d.exc # "none"
        THEN Reject(Message(500, "Error processing token"))
        ELSE IF d.payload.sub = Null \/ d.payload.role = Null
        THEN Reject(Message(401, "Invalid token payload"))
        ELSE [pass |-> TRUE, resp |-> NoResponse,
              g |-> [current_user_id |-> d.payload.sub,
                     current_user_role |-> d.payload.role,
                     current_user_token |-> token]]

(* The decorator at time now: the response it returns itself, or pass and
   the identity it loads into flask.g *)
token_required(header, now) ==
    LET token == BearerOf(header)
        d == jwt_decode(token, config.JWT_SECRET_KEY, now)
    IN  IF Falsy(token) THEN Reject(Message(401, "Token is missing!"))
        ELSE IF config.JWT_SECRET_KEY \in {Null, ""}
        THEN Reject(Message(500, "Server configuration error"))
        ELSE IF d.exc = "ExpiredSignatureError"
        THEN Reject(Message(401, "Access token has expired!"))
        ELSE IF d.exc = "InvalidTokenError"
        THEN Reject(Message(401, "Access token is invalid!"))
        ELSE IF d.exc # "none"
        THEN Reject(Message(500, "Error processing token"))
        ELSE IF d.payload.type # "access"
        THEN Reject(Message(401, "Invalid token type provided (expected access)"))
        ELSE IF d.payload.sub = Null \/ d.payload.role = Null
        THEN Reject(Message(401, "Invalid token payload"))
        ELSE [pass |-> TRUE, resp |-> NoResponse,
              g |-> [current_user_id |-> d.payload.sub,
                     current_user_role |-> d.payload.role,
                     current_user_token |-> token]]

----------------------------------------------------------------------------
(* Request bodies: request.get_json() is None (JSON null), a dict with the
   given keys, or a non-empty list *)

ReqBody(kind, keys, linking_code) ==
    [kind |-> kind, keys |-> keys, linking_code |-> linking_code]

NullBody == ReqBody("null", {}, NoToken)
ObjectBody(keys) == ReqBody("object", keys, NoToken)
CodeBody(code) == ReqBody("object", {"linking_code"}, code)

(* A JSON list of strings: keys holds its elements, which is what
   "field in data" looks at *)
ListBody(elements) == ReqBody("array", elements, NoToken)

(* not data: None, {} and [] are falsy *)
FalsyBody(body) == body.kind = "null" \/ body.keys = {}

ChildFields == {"name", "birthday", "group", "allergies", "notes"}

CreateBodies ==
    {NullBody, ObjectBody({}), ObjectBody({"name"}), ObjectBody({"name", "birthday"}),
     ListBody({"name"}), ListBody({"name", "birthday"})}

LinkBodies ==
    {NullBody, ObjectBody({}), ObjectBody({"name"}), ListBody({"linking_code"})}
    \cup {CodeBody(c) : c \in LinkingCodes}

(* The update bodies carry a key that is no profile field *)
UpdateBodies ==
    {NullBody, ObjectBody({}), ObjectBody({"notes", "parent_id"}),
     ListBody({"notes", "parent_id"})}

Request(route, header, body, child_id) ==
    [route |-> route, header |-> header, body |-> body, child_id |-> child_id]

NoRequest == Request(Null, Header("absent", NoToken), NullBody, Null)

----------------------------------------------------------------------------
(* Service layer: the calls to DB Interact *)

Call(op, child_id, token, supervisor_id, data) ==
    [op |-> op, child_id |-> child_id, token |-> token,
     supervisor_id |-> supervisor_id, data |-> data]

(* POST /internal/children *)
request_create_child(child_data, parent_token) ==
    Call("create", Null, parent_token, Null, ObjectBody(child_data.keys \cap ChildFields))

(* PUT /internal/children/{child_id}/link-supervisor *)
request_link_supervisor(child_id, supervisor_id, supervisor_token) ==
    Call("link", child_id, supervisor_token, supervisor_id, NullBody)

(* GET /data/children/{child_id} *)
request_get_child(child_id, user_token) ==
    Call("get", child_id, user_token, Null, NullBody)

(* GET /data/children *)
request_get_children_list(user_token) ==
    Call("list", Null, user_token, Null, NullBody)

(* request_update_child that sends a token the gateway minted for the caller *)
request_update_child_reminted(child_id, update_data, user_token) ==
    Call("update", child_id,
         Signed([user_token.payload EXCEPT !.iat = 1], config.JWT_SECRET_KEY),
         Null, update_data)

(* request_update_child that forwards only the profile fields, as
   request_create_child does *)
request_update_child_whitelisted(child_id, update_data, user_token) ==
    Call("update", child_id, user_token, Null,
         ObjectBody(update_data.keys \cap ChildFields))

(* PUT /internal/children/{child_id} *)
request_update_child(child_id, update_data, user_token) ==
    Call("update", child_id, user_token, Null, update_data)

(* What _make_db_request gives the handler: a response, or one of the
   exceptions it raises *)
Reply(net, status, body) == [net |-> net, status |-> status, body |-> body]

NetErrors == {"ConnectionError", "TimeoutError", "RequestException"}

(* response.ok of requests: no 4xx and no 5xx status *)
Ok(reply) == reply.status < 400

(* A step of a handler: it returns a response, or it calls DB Interact *)
Respond(response) == [respond |-> TRUE, resp |-> response,
                      call |-> Call(Null, Null, NoToken, Null, NullBody)]
Forward(call) == [respond |-> FALSE, resp |-> NoResponse, call |-> call]

----------------------------------------------------------------------------
(* The route handlers, each up to its call to DB Interact and from the
   reply on *)

(* response.text of a body that is a JSON object: its serialised text *)
RawJson == "<json text>"

(* error_msg of add_child and link_supervisor: the store's message (or the
   raw text when the JSON object has none) as the reason, the status when the
   body is no JSON object *)
ErrorMsg(text, reply) ==
    IF reply.body.kind # "object" THEN MsgStatus(text, reply.status)
    ELSE IF reply.body.message # NoMsg THEN MsgReason(text, reply.body.message.text)
    ELSE MsgReason(text, RawJson)

(* response.json(), or {"message": response.text} on a JSONDecodeError *)
JsonOrText(reply) ==
    IF reply.body.kind = "text"
    THEN JsonBody(Msg(reply.body.text), Null, NoToken, NoRecord)
    ELSE reply.body

(* add_child that validates the body before it looks at the role *)
add_child_validate_first(user, body) ==
    IF FalsyBody(body) \/ ~({"name", "birthday"} \subseteq body.keys)
    THEN Respond(Message(400, "Missing required fields: name, birthday"))
    ELSE IF user.current_user_role # "parent"
    THEN Respond(Message(403, "Forbidden: Only parents can add children"))
    ELSE IF body.kind = "array" THEN Respond(Unhandled)
    ELSE Forward(request_create_child(body, user.current_user_token))

add_child(user, body) ==
    IF user.current_user_role # "parent"
    THEN Respond(Message(403, "Forbidden: Only parents can add children"))
    ELSE IF FalsyBody(body) \/ ~({"name", "birthday"} \subseteq body.keys)
    THEN Respond(Message(400, "Missing required fields: name, birthday"))
    ELSE IF body.kind = "array" THEN Respond(Unhandled)
    ELSE Forward(request_create_child(body, user.current_user_token))

(* The store answered the create call 201 with a JSON object that carries a
   non-empty child_id *)
CreatedChild(reply) ==
    /\ reply.net = "ok"
    /\ reply.status = 201
    /\ reply.body.kind = "object"
    /\ reply.body.child_id \notin {Null, ""}

(* add_child that does not check the child_id of the store's 201 *)
add_child_response_noid(reply, linking_code) ==
    IF reply.net \in NetErrors
    THEN Message(503, "Error communicating with database service")
    ELSE IF reply.status = 201
    THEN IF reply.body.kind = "text"
         THEN Message(503, "Error communicating with database service")
         ELSE IF reply.body.kind = "array"
         THEN Message(500, "An internal server error occurred")
         ELSE IF Falsy(linking_code)
         THEN Message(500, "Child profile created, but linking code generation failed.")
         ELSE Response(201, JsonBody(Msg("Child profile added successfully"),
                                     reply.body.child_id, linking_code, NoRecord))
    ELSE Response(reply.status,
                  JsonBody(ErrorMsg("Failed to create child profile via database service.", reply),
                           Null, NoToken, NoRecord))

(* add_child that answers a failed code generation like any other fault *)
add_child_response_generic(reply, linking_code) ==
    IF reply.net \in NetErrors
    THEN Message(503, "Error communicating with database service")
    ELSE IF reply.status = 201
    THEN IF reply.body.kind = "text"
         THEN Message(503, "Error communicating with database service")
         ELSE IF reply.body.kind = "array"
         THEN Message(500, "An internal server error occurred")
         ELSE IF reply.body.child_id \in {Null, ""}
         THEN Message(500, "Child profile created, but failed to get ID.")
         ELSE IF Falsy(linking_code)
         THEN Message(500, "An internal server error occurred")
         ELSE Response(201, JsonBody(Msg("Child profile added successfully"),
                                     reply.body.child_id, linking_code, NoRecord))
    ELSE Response(reply.status,
                  JsonBody(ErrorMsg("Failed to create child profile via database service.", reply),
                           Null, NoToken, NoRecord))

(* add_child that relays a rejection without the store's reason *)
add_child_response_flat(reply, linking_code) ==
    IF reply.net \in NetErrors
    THEN Message(503, "Error communicating with database service")
    ELSE IF reply.status = 201
    THEN IF reply.body.kind = "text"
         THEN Message(503, "Error communicating with database service")
         ELSE IF reply.body.kind = "array"
         THEN Message(500, "An internal server error occurred")
         ELSE IF reply.body.child_id \in {Null, ""}
         THEN Message(500, "Child profile created, but failed to get ID.")
         ELSE IF Falsy(linking_code)
         THEN Message(500, "Child profile created, but linking code generation failed.")
         ELSE Response(201, JsonBody(Msg("Child profile added successfully"),
                                     reply.body.child_id, linking_code, NoRecord))
    ELSE Message(reply.status, "Failed to create child profile via database service.")

(* add_child from the store's reply on; linking_code is what
   generate_linking_code(new_child_id) returns, called only when the reply is
   a 201 with a child_id *)
add_child_response(reply, linking_code) ==
    IF reply.net \in NetErrors
    THEN Message(503, "Error communicating with database service")
    ELSE IF reply.status = 201
    THEN IF reply.body.kind = "text"
         THEN Message(503, "Error communicating with database service")
         ELSE IF reply.body.kind = "array"
         THEN Message(500, "An internal server error occurred")
         ELSE IF reply.body.child_id \in {Null, ""}
         THEN Message(500, "Child profile created, but failed to get ID.")
         ELSE IF Falsy(linking_code)
         THEN Message(500, "Child profile created, but linking code generation failed.")
         ELSE Response(201, JsonBody(Msg("Child profile added successfully"),
                                     reply.body.child_id, linking_code, NoRecord))
    ELSE Response(reply.status,
                  JsonBody(ErrorMsg("Failed to create child profile via database service.", reply),
                           Null, NoToken, NoRecord))

add_child_reply(reply, now) ==
    add_child_response(reply, generate_linking_code(reply.body.child_id, now))

(* link_supervisor that reads the child_id of the code without verifying it *)
link_supervisor_unverified(user, body, now) ==
    IF user.current_user_role # "teacher"
    THEN Respond(Message(403, "Forbidden: Only supervisors can link using a code"))
    ELSE IF ~FalsyBody(body) /\ body.kind = "array" THEN Respond(Unhandled)
    ELSE IF FalsyBody(body) \/ "linking_code" \notin body.keys \/ Falsy(body.linking_code)
    THEN Respond(Message(400, "Missing 'linking_code' in request body"))
    ELSE LET child_id == body.linking_code.payload.child_id IN
         IF child_id \in {Null, ""}
         THEN Respond(Message(400, "Invalid or expired linking code"))
         ELSE Forward(request_link_supervisor(child_id, user.current_user_id,
                                              user.current_user_token))

(* link_supervisor that checks the code before the role *)
link_supervisor_code_first(user, body, now) ==
    IF ~FalsyBody(body) /\ body.kind = "array" THEN Respond(Unhandled)
    ELSE IF FalsyBody(body) \/ "linking_code" \notin body.keys \/ Falsy(body.linking_code)
    THEN Respond(Message(400, "Missing 'linking_code' in request body"))
    ELSE LET child_id == verify_linking_code(body.linking_code, now) IN
         IF child_id = Raised THEN Respond(Unhandled)
         ELSE IF child_id \in {Null, ""}
         THEN Respond(Message(400, "Invalid or expired linking code"))
         ELSE IF user.current_user_role # "teacher"
         THEN Respond(Message(403, "Forbidden: Only supervisors can link using a code"))
         ELSE Forward(request_link_supervisor(child_id, user.current_user_id,
                                              user.current_user_token))

(* link_supervisor that tells an expired code from an invalid one *)
link_supervisor_telling(user, body, now) ==
    IF user.current_user_role # "teacher"
    THEN Respond(Message(403, "Forbidden: Only supervisors can link using a code"))
    ELSE IF ~FalsyBody(body) /\ body.kind = "array" THEN Respond(Unhandled)
    ELSE IF FalsyBody(body) \/ "linking_code" \notin body.keys \/ Falsy(body.linking_code)
    THEN Respond(Message(400, "Missing 'linking_code' in request body"))
    ELSE LET child_id == verify_linking_code(body.linking_code, now) IN
         IF child_id = Raised THEN Respond(Unhandled)
         ELSE IF jwt_decode(body.linking_code, config.JWT_SECRET_KEY, now).exc
                    = "ExpiredSignatureError"
         THEN Respond(Message(410, "Linking code has expired"))
         ELSE IF child_id \in {Null, ""}
         THEN Respond(Message(400, "Invalid or expired linking code"))
         ELSE Forward(request_link_supervisor(child_id, user.current_user_id,
                                              user.current_user_token))

link_supervisor(user, body, now) ==
    IF user.current_user_role # "teacher"
    THEN Respond(Message(403, "Forbidden: Only supervisors can link using a code"))
    ELSE IF ~FalsyBody(body) /\ body.kind = "array" THEN Respond(Unhandled)
    ELSE IF FalsyBody(body) \/ "linking_code" \notin body.keys \/ Falsy(body.linking_code)
    THEN Respond(Message(400, "Missing 'linking_code' in request body"))
    ELSE LET child_id == verify_linking_code(body.linking_code, now) IN
         IF child_id = Raised THEN Respond(Unhandled)
         ELSE IF child_id \in {Null, ""}
         THEN Respond(Message(400, "Invalid or expired linking code"))
         ELSE Forward(request_link_supervisor(child_id, user.current_user_id,
                                              user.current_user_token))

(* link_supervisor that relays the store's 200 body *)
link_supervisor_reply_relayed(call, reply) ==
    IF reply.net \in NetErrors
    THEN Message(503, "Error communicating with database service")
    ELSE IF reply.status = 200
    THEN Response(200, JsonOrText(reply))
    ELSE IF reply.status = 404
    THEN Message(404, "Failed to link supervisor: Child not found.")
    ELSE Response(reply.status,
                  JsonBody(ErrorMsg("Failed to link supervisor via database service.", reply),
                           Null, NoToken, NoRecord))

(* link_supervisor without the message of its own for a 404 *)
link_supervisor_reply_plain404(call, reply) ==
    IF reply.net \in NetErrors
    THEN Message(503, "Error communicating with database service")
    ELSE IF reply.status = 200
    THEN Response(200, JsonBody(Msg("Supervisor linked successfully"), call.child_id,
                                NoToken, NoRecord))
    ELSE Response(reply.status,
                  JsonBody(ErrorMsg("Failed to link supervisor via database service.", reply),
                           Null, NoToken, NoRecord))

link_supervisor_reply(call, reply) ==
    IF reply.net \in NetErrors
    THEN Message(503, "Error communicating with database service")
    ELSE IF reply.status = 200
    THEN Response(200, JsonBody(Msg("Supervisor linked successfully"), call.child_id,
                                NoToken, NoRecord))
    ELSE IF reply.status = 404
    THEN Message(404, "Failed to link supervisor: Child not found.")
    ELSE Response(reply.status,
                  JsonBody(ErrorMsg("Failed to link supervisor via database service.", reply),
                           Null, NoToken, NoRecord))

get_child(user, child_id) == Forward(request_get_child(child_id, user.current_user_token))

(* get_child that hides a refusal of the store behind a 404 *)
get_child_reply_masked(reply) ==
    IF reply.net \in NetErrors
    THEN Message(503, "Error communicating with database service")
    ELSE IF reply.status = 403
    THEN Message(404, "Child not found")
    ELSE Response(reply.status, JsonOrText(reply))

get_child_reply(reply) ==
    IF reply.net \in NetErrors
    THEN Message(503, "Error communicating with database service")
    ELSE Response(reply.status, JsonOrText(reply))

get_children_list(user) == Forward(request_get_children_list(user.current_user_token))

get_children_list_reply(reply) ==
    IF reply.net \in NetErrors
    THEN Message(503, "Error communicating with database service")
    ELSE Response(reply.status, JsonOrText(reply))

update_child(user, body, child_id) ==
    IF FalsyBody(body) THEN Respond(Message(400, "Missing request body"))
    ELSE Forward(request_get_child(child_id, user.current_user_token))

(* The authorization check that tries the GET again when the store could
   not be reached *)
update_child_authz_retry(user, body, child_id, reply) ==
    IF reply.net \in NetErrors
    THEN Forward(request_get_child(child_id, user.current_user_token))
    ELSE IF ~Ok(reply)
    THEN Respond(Response(reply.status, JsonOrText(reply)))
    ELSE Forward(request_update_child(child_id, body, user.current_user_token))

(* The authorization check that takes only a 403 for a refusal *)
update_child_authz_only403(user, body, child_id, reply) ==
    IF reply.net \in NetErrors
    THEN Respond(Message(503, "Error communicating with database service for authorization"))
    ELSE IF reply.status = 403
    THEN Respond(Response(reply.status, JsonOrText(reply)))
    ELSE Forward(request_update_child(child_id, body, user.current_user_token))

(* The authorization check of update_child, from the reply of the GET on *)
update_child_authz(user, body, child_id, reply) ==
    IF reply.net \in NetErrors
    THEN Respond(Message(503, "Error communicating with database service for authorization"))
    ELSE IF ~Ok(reply)
    THEN Respond(Response(reply.status, JsonOrText(reply)))
    ELSE Forward(request_update_child(child_id, body, user.current_user_token))

(* update_child whose except clause misses the TimeoutError, which then
   falls to "except Exception" *)
update_child_reply_timeout500(reply) ==
    IF reply.net = "TimeoutError"
    THEN Message(500, "An internal server error occurred during update")
    ELSE IF reply.net \in NetErrors
    THEN Message(503, "Error communicating with database service for update")
    ELSE Response(reply.status, JsonOrText(reply))

update_child_reply(reply) ==
    IF reply.net \in NetErrors
    THEN Message(503, "Error communicating with database service for update")
    ELSE Response(reply.status, JsonOrText(reply))

health_check == Response(200, JsonBody(Msg("Child Profile Service Healthy"), Null, NoToken, NoRecord))

----------------------------------------------------------------------------
(* DB Interact, the store behind the gateway: what it answers to a call and
   what becomes of its records.  It identifies the caller from the token it
   is passed. *)

Caller(call) == call.token.payload.sub

Exists(c) == c \in ChildIds /\ children[c] # NoRecord

MayRead(call) ==
    \/ Caller(call) = children[call.child_id].owner
    \/ Caller(call) \in children[call.child_id].supervisor_ids

StoreJson(status, text) == Reply("ok", status, JsonBody(Msg(text), Null, NoToken, NoRecord))

Outcome(reply, records) == [reply |-> reply, children |-> records]

(* The store applying the call *)
Created(call, c) ==
    [children EXCEPT ![c] = ChildRecord(c, Caller(call), {}, {})]

Linked(call) ==
    [children EXCEPT ![call.child_id].supervisor_ids = @ \cup {call.supervisor_id}]

Updated(call) ==
    [children EXCEPT ![call.child_id].data = call.data.keys]

DbServes(call) ==
    IF call.op = "create"
    THEN LET free == {c \in StoreIds : ~Exists(c)} IN
         IF free = {} THEN {Outcome(StoreJson(400, "Could not create child"), children)}
         ELSE LET c == CHOOSE x \in free : TRUE IN
              {Outcome(Reply("ok", 201, JsonBody(Msg("Child created"), c, NoToken, NoRecord)),
                       Created(call, c)),
               Outcome(Reply("ok", 201, JsonBody(Msg("Child created"), Null, NoToken, NoRecord)),
                       Created(call, c)),
               Outcome(Reply("ok", 201, TextBody("Created")), Created(call, c)),
               Outcome(Reply("ok", 400, JsonBody(NoMsg, Null, NoToken, NoRecord)), children)}
    ELSE IF call.op = "link"
    THEN IF Exists(call.child_id)
         THEN {Outcome(StoreJson(200, "Supervisor linked"), Linked(call))}
         ELSE {Outcome(StoreJson(404, "Child not found"), children)}
    ELSE IF call.op = "get"
    THEN IF ~Exists(call.child_id)
         THEN {Outcome(StoreJson(404, "Child not found"), children)}
         ELSE IF ~MayRead(call)
         THEN {Outcome(StoreJson(403, "Forbidden"), children)}
         ELSE {Outcome(Reply("ok", 200, JsonBody(NoMsg, Null, NoToken, children[call.child_id])),
                       children)}
    ELSE IF call.op = "list"
    THEN {Outcome(Reply("ok", 200, ArrayBody("children")), children)}
    ELSE IF Exists(call.child_id)
         THEN {Outcome(StoreJson(200, "Child updated successfully"), Updated(call))}
         ELSE {Outcome(StoreJson(404, "Child not found"), children)}

(* The store out of order or out of reach: a 500 page, a 304 without body to
   a GET, or requests.request raising; a read timeout may come after the
   store applied the call *)
DbFails(call) ==
    {Outcome(Reply("ok", 500, TextBody("Internal Server Error")), children)}
    \cup (IF call.op = "get" THEN {Outcome(Reply("ok", 304, TextBody("")), children)} ELSE {})
    \cup {Outcome(Reply(e, 0, NoBody), children) : e \in NetErrors}
    \cup {Outcome(Reply("TimeoutError", 0, NoBody), o.children) : o \in DbServes(call)}

(* The store turns a link request down with a JSON message: the child is
   gone (another client of the store removed it), or the supervisor is not
   one it accepts *)
DbRefuses(call) ==
    IF call.op = "link"
    THEN {Outcome(StoreJson(404, "Child not found"), children),
          Outcome(StoreJson(400, "Invalid supervisor"), children)}
    ELSE {}

_make_db_request(call) == DbServes(call) \cup DbRefuses(call) \cup DbFails(call)

----------------------------------------------------------------------------
(* The state machine: one inbound request at a time is taken from receipt
   to response, the store answering each forwarded call, the clock running *)

(* The context of a request: what the thread that serves it holds, flask.g
   included; NoContext is a thread with no request *)
Context(p, r, t, user, entered, sent, got, response) ==
    [pc |-> p, req |-> r, at |-> t, g |-> user, ran |-> entered,
     calls |-> sent, replies |-> got, resp |-> response]

NoContext == Context("idle", NoRequest, 0, NoUser, FALSE, <<>>, <<>>, NoResponse)

Routes == {"health_check", "add_child", "link_supervisor", "get_child",
           "get_children_list", "update_child"}

Init ==
    /\ config = [SECRET_KEY |-> "a_fallback_secret_for_child_profile",
                 DB_INTERACT_SERVICE_URL |-> "http://localhost:8082",
                 JWT_SECRET_KEY |-> SharedSecret,
                 JWT_ALGORITHM |-> "HS256",
                 LINKING_CODE_EXPIRATION |-> LINKING_CODE_EXPIRATION,
                 LINKING_CODE_TYPE_CLAIM |-> "linking_code"]
    /\ clock = 0
    /\ codes = {}
    /\ children = [c \in ChildIds |-> NoRecord]
    /\ pc = "idle"
    /\ req = NoRequest
    /\ at = 0
    /\ g = NoUser
    /\ ran = FALSE
    /\ calls = <<>>
    /\ replies = <<>>
    /\ resp = NoResponse
    /\ other = NoContext

(* A request arrives at a route behind @token_required: the decorator runs
   and, when it passes, the view function up to its first store call.  step
   is that first step of the view function for the identity in flask.g. *)
Serve(request, step) ==
    LET auth == token_required(request.header, clock) IN
    /\ pc = "idle"
    /\ req' = request
    /\ at' = clock
    /\ g' = auth.g
    /\ ran' = auth.pass
    /\ replies' = <<>>
    /\ IF ~auth.pass
       THEN resp' = auth.resp /\ calls' = <<>> /\ pc' = "done"
       ELSE IF step.respond
       THEN resp' = step.resp /\ calls' = <<>> /\ pc' = "done"
       ELSE resp' = NoResponse /\ calls' = <<step.call>> /\ pc' = "wait"
    /\ UNCHANGED <<config, clock, codes, children, other>>

User(header) == token_required(header, clock).g

HealthCheck ==
    /\ pc = "idle"
    /\ \E h \in {Header("absent", NoToken), Header("bearer", NotAJwt)} :
        /\ req' = Request("health_check", h, NullBody, Null)
        /\ at' = clock
        /\ ran' = TRUE
        /\ resp' = health_check
        /\ pc' = "done"
    /\ UNCHANGED <<config, clock, codes, children, g, calls, replies, other>>

AddChild ==
    \E in \in Inputs(CreateBodies, {ObjectBody({"name", "birthday"})}) :
        LET h == in[1]  b == in[2] IN
        Serve(Request("add_child", h, b, Null), add_child(User(h), b))

LinkSupervisor ==
    \E in \in Inputs(LinkBodies, {CodeBody(c) : c \in codes \cup {NotAJwt}}) :
        LET h == in[1]  b == in[2] IN
        Serve(Request("link_supervisor", h, b, Null), link_supervisor(User(h), b, clock))

GetChild ==
    \E in \in Inputs({NullBody}, {NullBody}), c \in StoreIds :
        LET h == in[1] IN
        Serve(Request("get_child", h, NullBody, c), get_child(User(h), c))

GetChildrenList ==
    \E in \in Inputs({NullBody}, {NullBody}) :
        LET h == in[1] IN
        Serve(Request("get_children_list", h, NullBody, Null), get_children_list(User(h)))

UpdateChild ==
    \E in \in Inputs(UpdateBodies, {ObjectBody({"notes", "parent_id"})}), c \in StoreIds :
        LET h == in[1]  b == in[2] IN
        Serve(Request("update_child", h, b, c), update_child(User(h), b, c))

(* The call in flight *)
Pending == calls[Len(calls)]

(* The store answers the call in flight and the view function runs from
   there to its response *)
Finish(route, n, outcome, response) ==
    /\ pc = "wait"
    /\ req.route = route
    /\ Len(calls) = n
    /\ replies' = Append(replies, outcome.reply)
    /\ children' = outcome.children
    /\ resp' = response
    /\ pc' = "done"
    /\ UNCHANGED <<config, clock, req, at, g, ran, calls, other>>

AddChildReply ==
    /\ pc = "wait"
    /\ \E o \in _make_db_request(Pending) :
        LET response == add_child_reply(o.reply, clock) IN
        /\ Finish("add_child", 1, o, response)
        /\ codes' = IF response.status = 201
                    THEN codes \cup {response.body.linking_code}
                    ELSE codes

(* jwt.encode raises inside generate_linking_code, which logs the exception
   and returns None; the store has answered 201 with a child_id *)
AddChildReplyEncodeFails ==
    /\ pc = "wait"
    /\ \E o \in _make_db_request(Pending) :
        /\ CreatedChild(o.reply)
        /\ Finish("add_child", 1, o, add_child_response(o.reply, NoToken))
        /\ UNCHANGED codes

LinkSupervisorReply ==
    /\ pc = "wait"
    /\ \E o \in _make_db_request(Pending) :
        /\ Finish("link_supervisor", 1, o, link_supervisor_reply(Pending, o.reply))
        /\ UNCHANGED codes

GetChildReply ==
    /\ pc = "wait"
    /\ \E o \in _make_db_request(Pending) :
        /\ Finish("get_child", 1, o, get_child_reply(o.reply))
        /\ UNCHANGED codes

GetChildrenListReply ==
    /\ pc = "wait"
    /\ \E o \in _make_db_request(Pending) :
        /\ Finish("get_children_list", 1, o, get_children_list_reply(o.reply))
        /\ UNCHANGED codes

(* The store answers the authorization GET of update_child: the view
   function returns, or goes on to the PUT *)
UpdateChildAuthz ==
    /\ pc = "wait"
    /\ \E o \in _make_db_request(Pending) :
        LET step == update_child_authz(g, req.body, req.child_id, o.reply) IN
        /\ pc = "wait"
        /\ req.route = "update_child"
        /\ Len(calls) = 1
        /\ replies' = Append(replies, o.reply)
        /\ children' = o.children
        /\ IF step.respond
           THEN resp' = step.resp /\ calls' = calls /\ pc' = "done"
           ELSE resp' = resp /\ calls' = Append(calls, step.call) /\ pc' = "wait"
        /\ UNCHANGED <<config, clock, codes, req, at, g, ran, other>>

UpdateChildReply ==
    /\ pc = "wait"
    /\ \E o \in _make_db_request(Pending) :
        /\ Finish("update_child", 2, o, update_child_reply(o.reply))
        /\ UNCHANGED codes

(* The client has its response; the next request may come *)
Complete ==
    /\ pc = "done"
    /\ pc' = "idle"
    /\ req' = NoRequest
    /\ at' = 0
    /\ g' = NoUser
    /\ ran' = FALSE
    /\ calls' = <<>>
    /\ replies' = <<>>
    /\ resp' = NoResponse
    /\ UNCHANGED <<config, clock, codes, children, other>>

(* requests.request(..., timeout=10): the seconds a store call may take *)
Timeout == 10

(* Time passes, to a later instant among those the model tells apart: the
   first ticks, and the ticks around the end of one validity window.  While
   store calls are in flight no more passes than their timeouts allow. *)
Instants ==
    (0 .. MaxSlack)
    \cup ((LINKING_CODE_EXPIRATION * TicksPerSecond - 1) .. MaxClock)

Tick ==
    \E t \in Instants :
        /\ pc # "done"
        /\ t > clock
        /\ pc = "wait" => t - at <= Len(calls) * Timeout * TicksPerSecond
        /\ clock' = t
        /\ UNCHANGED <<config, codes, children, pc, req, at, g, ran, calls, replies, resp, other>>

Next ==
    \/ HealthCheck
    \/ AddChild
    \/ LinkSupervisor
    \/ GetChild
    \/ GetChildrenList
    \/ UpdateChild
    \/ AddChildReply
    \/ LinkSupervisorReply
    \/ GetChildReply
    \/ GetChildrenListReply
    \/ UpdateChildAuthz
    \/ UpdateChildReply
    \/ Complete
    \/ Tick

Spec == Init /\ [][Next]_vars

(* The codec driven directly: generate_linking_code is called for any child
   at any instant, as add_child calls it after a 201, up to MaxCodes codes;
   the store holds a child from the start; link-supervisor and the read of a
   child are served as in Spec *)
InitCodec ==
    /\ config = [SECRET_KEY |-> "a_fallback_secret_for_child_profile",
                 DB_INTERACT_SERVICE_URL |-> "http://localhost:8082",
                 JWT_SECRET_KEY |-> SharedSecret,
                 JWT_ALGORITHM |-> "HS256",
                 LINKING_CODE_EXPIRATION |-> LINKING_CODE_EXPIRATION,
                 LINKING_CODE_TYPE_CLAIM |-> "linking_code"]
    /\ clock = 0
    /\ codes = {}
    /\ children = [c \in ChildIds |->
                      IF c \in StoreIds THEN ChildRecord(c, "p1", {}, {}) ELSE NoRecord]
    /\ pc = "idle"
    /\ req = NoRequest
    /\ at = 0
    /\ g = NoUser
    /\ ran = FALSE
    /\ calls = <<>>
    /\ replies = <<>>
    /\ resp = NoResponse
    /\ other = NoContext

GenerateLinkingCode ==
    \E c \in ChildIds :
        /\ pc = "idle"
        /\ Cardinality(codes) < MaxCodes
        /\ ~Falsy(generate_linking_code(c, clock))
        /\ codes' = codes \cup {generate_linking_code(c, clock)}
        /\ UNCHANGED <<config, clock, children, pc, req, at, g, ran, calls, replies, resp, other>>

NextCodec ==
    \/ GenerateLinkingCode
    \/ LinkSupervisor
    \/ LinkSupervisorReply
    \/ GetChild
    \/ GetChildReply
    \/ Complete
    \/ Tick

SpecCodec == InitCodec /\ [][NextCodec]_vars

(* The service where, in addition, the signing of a linking code may fail *)
NextEncodeFails == Next \/ AddChildReplyEncodeFails

SpecEncodeFails == Init /\ [][NextEncodeFails]_vars

(* Two requests in flight, each served by a thread of its own.  The running
   thread's request is in pc, req, at, g, ran, calls, replies and resp, the
   waiting thread's in other; the threads share app.config, the clock and
   the store and nothing else, flask.g being bound to the request. *)
Mine == Context(pc, req, at, g, ran, calls, replies, resp)

(* The scheduler takes the thread off a request that is waiting for the
   store, or has none, and runs the other thread *)
Switch_shared_g ==
    /\ pc \in {"idle", "wait"}
    /\ other # Mine
    /\ other' = Mine
    /\ pc' = other.pc
    /\ req' = other.req
    /\ at' = other.at
    /\ g' = g
    /\ ran' = other.ran
    /\ calls' = other.calls
    /\ replies' = other.replies
    /\ resp' = other.resp
    /\ UNCHANGED <<config, clock, codes, children>>

Switch ==
    /\ pc \in {"idle", "wait"}
    /\ other # Mine
    /\ other' = Mine
    /\ pc' = other.pc
    /\ req' = other.req
    /\ at' = other.at
    /\ g' = other.g
    /\ ran' = other.ran
    /\ calls' = other.calls
    /\ replies' = other.replies
    /\ resp' = other.resp
    /\ UNCHANGED <<config, clock, codes, children>>

(* The service with a child of p1 in the store and its linking code handed
   out at startup time, serving reads, updates and links two at a time *)
InitConcurrent ==
    /\ config = [SECRET_KEY |-> "a_fallback_secret_for_child_profile",
                 DB_INTERACT_SERVICE_URL |-> "http://localhost:8082",
                 JWT_SECRET_KEY |-> SharedSecret,
                 JWT_ALGORITHM |-> "HS256",
                 LINKING_CODE_EXPIRATION |-> LINKING_CODE_EXPIRATION,
                 LINKING_CODE_TYPE_CLAIM |-> "linking_code"]
    /\ clock = 0
    /\ codes = {generate_linking_code(c, 0) : c \in StoreIds}
    /\ children = [c \in ChildIds |->
                      IF c \in StoreIds THEN ChildRecord(c, "p1", {}, {}) ELSE NoRecord]
    /\ pc = "idle"
    /\ req = NoRequest
    /\ at = 0
    /\ g = NoUser
    /\ ran = FALSE
    /\ calls = <<>>
    /\ replies = <<>>
    /\ resp = NoResponse
    /\ other = NoContext

NextConcurrent ==
    \/ LinkSupervisor
    \/ GetChild
    \/ UpdateChild
    \/ LinkSupervisorReply
    \/ GetChildReply
    \/ UpdateChildAuthz
    \/ UpdateChildReply
    \/ Complete
    \/ Switch

SpecConcurrent == InitConcurrent /\ [][NextConcurrent]_vars

----------------------------------------------------------------------------
(* Properties *)

(* The tick from which a token is expired *)
Expiry(token) == token.payload.exp * TicksPerSecond

(* The signature is not the configured secret's over the payload *)
BadSignature(token) ==
    token.wire # "jwt" \/ token.sig # HS256(config.JWT_SECRET_KEY, token.payload)

(* The request in flight went past the decorator as this role *)
Authenticated == pc # "idle" /\ req.route # "health_check" /\ ran

(* The request in flight is a link-supervisor request that names a code *)
NamesCode ==
    /\ pc # "idle"
    /\ req.route = "link_supervisor"
    /\ req.body.kind = "object"
    /\ "linking_code" \in req.body.keys

Window == LINKING_CODE_EXPIRATION * TicksPerSecond

(* C1: Round trip.  For every non-empty child_id, the code generated for it
   verifies to exactly that child_id at every instant strictly before the
   code's expiry; and every code a 201 response hands out was generated for
   the child_id the store assigned and verifies to it. *)
RoundTrip ==
    /\ \A c \in ChildIds, t \in Instants :
          LET code == generate_linking_code(c, clock) IN
          (clock <= t /\ t < Expiry(code)) => verify_linking_code(code, t) = c
    /\ (pc = "done" /\ req.route = "add_child" /\ resp.status = 201)
          => /\ resp.body.child_id = replies[1].body.child_id
             /\ \A t \in Instants :
                   (clock <= t /\ t < Expiry(resp.body.linking_code))
                       => verify_linking_code(resp.body.linking_code, t) = resp.body.child_id

(* A teacher presents a handed-out code a tick before the end of its window
   and the link request goes out for the child the code was generated for *)
RoundTripWitness ==
    /\ pc = "wait"
    /\ req.route = "link_supervisor"
    /\ req.body.linking_code \in codes
    /\ at = Window - 1
    /\ calls[1].child_id = req.body.linking_code.payload.child_id
    /\ calls[1].child_id \in StoreIds

(* C2: Type confusion.  A signed, unexpired access token presented as a
   linking code is never accepted: verification yields no child_id and no
   link request goes out.  A bearer token whose type claim is not "access",
   a signed and unexpired linking code among them, is answered 401 on every
   authenticated route, the handler not run, whatever its signature. *)
TypeConfusionRejected ==
    /\ \A token \in GoodTokens \cup {ChildAccessToken}, t \in Instants :
          verify_linking_code(token, t) = Null
    /\ (NamesCode /\ req.body.linking_code.payload.type # "linking_code")
          => pc = "done" /\ calls = <<>> /\ resp.status \in {400, 401, 403}
    /\ (pc # "idle" /\ req.route # "health_check"
            /\ BearerOf(req.header).payload.type # "access")
          => pc = "done" /\ resp.status = 401 /\ ~ran /\ calls = <<>>

(* A teacher sends a signed, unexpired access token that carries a child_id
   as the linking code and is turned away *)
TypeConfusionWitness ==
    /\ NamesCode
    /\ Authenticated
    /\ g.current_user_role = "teacher"
    /\ req.body.linking_code = ChildAccessToken
    /\ jwt_decode(ChildAccessToken, config.JWT_SECRET_KEY, at).exc = "none"
    /\ resp.status = 400

(* C3 as stated: with e = t0 + 24h, a code generated at t0 verifies at every
   t < e and fails at every t >= e *)
ExpiryAtWindowEnd ==
    \A c \in ChildIds, t \in Instants :
        LET code == generate_linking_code(c, clock)
            e == clock + Window
        IN  clock <= t =>
               /\ t < e => verify_linking_code(code, t) = c
               /\ t >= e => verify_linking_code(code, t) = Null

(* C3 amended: the expiry is e = (t0 cut to whole seconds) + 24h; a code
   generated at t0 verifies at every t < e and fails at every t >= e, t = e
   included; the same holds of every code handed out, from its iat. *)
ExpiryAtWholeSecond ==
    /\ \A c \in ChildIds, t \in Instants :
          LET code == generate_linking_code(c, clock)
              e == (clock \div TicksPerSecond) * TicksPerSecond + Window
          IN  clock <= t =>
                 /\ t < e => verify_linking_code(code, t) = c
                 /\ t >= e => verify_linking_code(code, t) = Null
    /\ \A code \in codes :
          LET e == code.payload.iat * TicksPerSecond + Window IN
          /\ clock < e => verify_linking_code(code, clock) = code.payload.child_id
          /\ clock >= e => verify_linking_code(code, clock) = Null

(* A teacher presents a handed-out code at the very instant of its expiry
   and is turned away *)
ExpiryWitness ==
    /\ NamesCode
    /\ Authenticated
    /\ g.current_user_role = "teacher"
    /\ req.body.linking_code \in codes
    /\ at = Expiry(req.body.linking_code)
    /\ resp.status = 400
    /\ calls = <<>>

(* C4: Signature tampering.  A code whose signature is not the configured
   secret's over its payload (a handed-out code with its signature altered
   or its payload rewritten, a string that is no JWT) never verifies: the
   result is None, not a child_id and not an exception, and a request naming
   such a code ends in the application's own 4xx with no link request. *)
TamperedCodeRejected ==
    /\ \A code \in LinkingCodes, t \in Instants :
          BadSignature(code) => verify_linking_code(code, t) = Null
    /\ (NamesCode /\ BadSignature(req.body.linking_code))
          => /\ pc = "done"
             /\ calls = <<>>
             /\ resp.by = "app"
             /\ resp.status \in {400, 401, 403}

(* A teacher presents a handed-out, unexpired code whose signature was
   altered and gets the 400 *)
TamperedCodeWitness ==
    /\ NamesCode
    /\ Authenticated
    /\ g.current_user_role = "teacher"
    /\ \E c \in codes :
          /\ req.body.linking_code = FlipSignature(c)
          /\ at < Expiry(c)
    /\ resp = Message(400, "Invalid or expired linking code")

(* C5: Link-request integrity.  Every link request forwarded to the store
   belongs to a link-supervisor request; its child_id is the child_id of the
   code of that request, which is signed by the configured secret, unexpired
   when the request came and typed linking_code; its supervisor_id is the
   subject of the request's own teacher access token; and it is sent with
   that token. *)
LinkRequestIntegrity ==
    \A i \in 1 .. Len(calls) :
        calls[i].op = "link" =>
            LET code == req.body.linking_code
                token == req.header.token
            IN  /\ i = 1
                /\ NamesCode
                /\ ~BadSignature(code)
                /\ at < Expiry(code)
                /\ code.payload.type = "linking_code"
                /\ calls[i].child_id = code.payload.child_id
                /\ calls[i].child_id \notin {Null, ""}
                /\ req.header.kind = "bearer"
                /\ ~BadSignature(token)
                /\ token.payload.type = "access"
                /\ token.payload.role = "teacher"
                /\ calls[i].supervisor_id = token.payload.sub
                /\ calls[i].token = token

(* A link request is in flight *)
LinkRequestWitness ==
    /\ pc = "wait"
    /\ calls[1].op = "link"
    /\ calls[1].supervisor_id = "t1"
    /\ calls[1].child_id = "c1"

(* C6: Create role gate.  POST /profiles/children by an authenticated caller
   whose role is not parent is answered 403 whatever the payload, and no call
   goes to the store. *)
CreateRoleGate ==
    (Authenticated /\ req.route = "add_child" /\ g.current_user_role # "parent")
        => /\ pc = "done"
           /\ resp.status = 403
           /\ calls = <<>>

(* A teacher posts a malformed payload and gets the 403 *)
CreateRoleGateWitness ==
    /\ Authenticated
    /\ req.route = "add_child"
    /\ g.current_user_role = "teacher"
    /\ req.body = ObjectBody({"name"})
    /\ resp.status = 403

(* C7: Link role gate.  POST /profiles/children/link-supervisor by an
   authenticated caller whose role is not teacher is answered 403, also when
   the code is valid and unexpired, and no call goes to the store. *)
LinkRoleGate ==
    (Authenticated /\ req.route = "link_supervisor" /\ g.current_user_role # "teacher")
        => /\ pc = "done"
           /\ resp.status = 403
           /\ calls = <<>>

(* A parent presents a handed-out, unexpired code and gets the 403 *)
LinkRoleGateWitness ==
    /\ Authenticated
    /\ req.route = "link_supervisor"
    /\ g.current_user_role = "parent"
    /\ req.body.linking_code \in codes
    /\ at < Expiry(req.body.linking_code)
    /\ resp.status = 403

(* The ways a code fails verification at tick t *)
CodecError(code, t) ==
    \/ BadSignature(code)
    \/ Expiry(code) <= t
    \/ code.payload.type # "linking_code"
    \/ code.payload.child_id \in {Null, ""}

(* C8: Uniform code rejection.  For a teacher's link-supervisor request that
   names a non-empty code, every failure of the code (bad signature or no
   JWT, expired, wrong type, no child_id) gives 400 with the one message
   "Invalid or expired linking code", and no link request goes out. *)
UniformCodeRejection ==
    (NamesCode /\ Authenticated /\ g.current_user_role = "teacher"
        /\ ~Falsy(req.body.linking_code) /\ CodecError(req.body.linking_code, at))
        => /\ pc = "done"
           /\ resp = Message(400, "Invalid or expired linking code")
           /\ calls = <<>>

(* A teacher presents a handed-out code after its expiry *)
UniformCodeRejectionWitness ==
    /\ NamesCode
    /\ Authenticated
    /\ g.current_user_role = "teacher"
    /\ req.body.linking_code \in codes
    /\ Expiry(req.body.linking_code) < at
    /\ resp = Message(400, "Invalid or expired linking code")

(* The pre-check of update_child failed: an error status, or no answer *)
PrecheckFailed(reply) == reply.net \in NetErrors \/ reply.status >= 400

(* C9: Unauthorized update rejected.  When the pre-check GET of an update
   comes back with an error status or the store cannot be reached, the
   request ends there: the response is the pre-check's status and body
   unchanged (503 when unreachable), no PUT is sent and the store's records
   stay as they were. *)
UnauthorizedUpdateRejected ==
    [][(pc = "wait" /\ req.route = "update_child" /\ Len(calls) = 1
          /\ Len(replies') = 1 /\ PrecheckFailed(replies'[1]))
        => /\ pc' = "done"
           /\ calls' = calls
           /\ calls[1].op = "get"
           /\ children' = children
           /\ resp' = IF replies'[1].net \in NetErrors
                      THEN Message(503, "Error communicating with database service for authorization")
                      ELSE IF replies'[1].body.kind = "text"
                      THEN Message(replies'[1].status, replies'[1].body.text)
                      ELSE Response(replies'[1].status, replies'[1].body)]_vars

(* A parent who does not own the child tries to update it and gets the
   store's 403; nothing was written *)
UnauthorizedUpdateWitness ==
    /\ pc = "done"
    /\ req.route = "update_child"
    /\ g.current_user_id = "p2"
    /\ Exists(req.child_id)
    /\ children[req.child_id].owner = "p1"
    /\ Len(calls) = 1
    /\ replies[1].status = 403
    /\ resp.status = 403
    /\ children[req.child_id].data = {}

(* The credentials the authenticator has to refuse at tick t *)
BadCredentials(header, t) ==
    \/ header.kind # "bearer"
    \/ Falsy(header.token)
    \/ BadSignature(header.token)
    \/ Expiry(header.token) <= t
    \/ header.token.payload.type # "access"
    \/ header.token.payload.sub = Null
    \/ header.token.payload.role = Null

(* C10: Authentication gate.  On every route but /health a request whose
   bearer token is missing, wrongly prefixed, badly signed, expired, of the
   wrong type or without subject or role is answered 401; the handler body
   never runs and no call goes to the store. *)
AuthenticationGate ==
    (pc # "idle" /\ req.route # "health_check" /\ BadCredentials(req.header, at))
        => /\ pc = "done"
           /\ resp.status = 401
           /\ ~ran
           /\ calls = <<>>
           /\ replies = <<>>

(* An update arrives under a well-signed access token that has expired *)
AuthenticationGateWitness ==
    /\ pc = "done"
    /\ req.route = "update_child"
    /\ req.header = Header("bearer", ShortLived)
    /\ resp = Message(401, "Access token has expired!")

(* The identity claim is absent or the empty string *)
NoIdentity(claim) == claim \in {Null, ""}

(* C11: Non-empty identity claims.  A well-signed, unexpired access token
   whose sub or role is absent or empty is answered 401 and the handler does
   not run; every handler that runs has a non-empty current_user_id and a
   non-empty current_user_role. *)
NonEmptyIdentity ==
    /\ (pc # "idle" /\ req.route # "health_check" /\ req.header.kind = "bearer"
           /\ ~BadSignature(req.header.token) /\ at < Expiry(req.header.token)
           /\ req.header.token.payload.type = "access"
           /\ (NoIdentity(req.header.token.payload.sub)
                  \/ NoIdentity(req.header.token.payload.role)))
          => pc = "done" /\ resp.status = 401 /\ ~ran /\ calls = <<>>
    /\ Authenticated
          => ~NoIdentity(g.current_user_id) /\ ~NoIdentity(g.current_user_role)

(* The store served the call in flight: reply is one of its own answers *)
Served(reply) == reply \in {o.reply : o \in DbServes(Pending)}

(* The user may read the child: its creator or one of its supervisors *)
LinkedTo(user, c) ==
    /\ Exists(c)
    /\ user \in children[c].supervisor_ids \cup {children[c].owner}

(* C12: End-to-end linking.  Every code a 201 handed out names a child the
   store holds.  A teacher who posts such a code before its expiry has the
   link request forwarded for that child; when the store serves it, the
   answer is 200 with that child_id and "Supervisor linked successfully" and
   the child's supervisor set holds the teacher.  Owner and supervisors stay.
   A GET of the child by its creator or a linked teacher that the store
   serves is answered 200 with the child's record. *)
EndToEndLinking ==
    /\ [](\A k \in codes : Exists(k.payload.child_id))
    /\ []((NamesCode /\ Authenticated /\ g.current_user_role = "teacher"
              /\ req.body.linking_code \in codes /\ at < Expiry(req.body.linking_code))
            => /\ Len(calls) = 1
               /\ calls[1] = request_link_supervisor(req.body.linking_code.payload.child_id,
                                                     g.current_user_id, req.header.token))
    /\ [][(pc = "wait" /\ req.route = "link_supervisor" /\ pc' = "done"
              /\ req.body.linking_code \in codes /\ Served(replies'[1]))
            => /\ resp' = Response(200, JsonBody(Msg("Supervisor linked successfully"),
                                                 req.body.linking_code.payload.child_id,
                                                 NoToken, NoRecord))
               /\ g.current_user_id
                     \in children'[req.body.linking_code.payload.child_id].supervisor_ids]_vars
    /\ [][\A c \in ChildIds :
            /\ Exists(c) => children'[c].owner = children[c].owner
            /\ children[c].supervisor_ids \subseteq children'[c].supervisor_ids]_vars
    /\ [][(pc = "wait" /\ req.route = "get_child" /\ pc' = "done"
              /\ LinkedTo(g.current_user_id, req.child_id) /\ Served(replies'[1]))
            => /\ resp'.status = 200
               /\ resp'.body.record = children[req.child_id]
               /\ resp'.body.record.id = req.child_id]_vars

(* The teacher, linked by the code, reads the child the parent created *)
EndToEndLinkingWitness ==
    /\ pc = "done"
    /\ req.route = "get_child"
    /\ g.current_user_id = "t1"
    /\ resp.status = 200
    /\ resp.body.record.id = "c1"
    /\ resp.body.record.owner = "p1"
    /\ "t1" \in resp.body.record.supervisor_ids
    /\ codes # {}

(* C13: Create success shape.  A create request is answered 201 exactly when
   the store answered 201 with a non-empty child_id (the signing of a code
   does not fail in this specification); a 201 carries that child_id, the
   success message and a code that verifies to that child_id. *)
CreateSuccessShape ==
    (pc = "done" /\ req.route = "add_child")
        => /\ resp.status = 201 <=> (Len(replies) = 1 /\ CreatedChild(replies[1]))
           /\ resp.status = 201
                 => /\ g.current_user_role = "parent"
                    /\ resp.body.kind = "object"
                    /\ resp.body.message = Msg("Child profile added successfully")
                    /\ resp.body.child_id = replies[1].body.child_id
                    /\ ~Falsy(resp.body.linking_code)
                    /\ verify_linking_code(resp.body.linking_code, clock) = resp.body.child_id
                    /\ resp.body.linking_code \in codes

(* A parent's create request is answered 201 with the child the store made *)
CreateSuccessWitness ==
    /\ pc = "done"
    /\ req.route = "add_child"
    /\ resp.status = 201
    /\ resp.body.child_id = "c1"
    /\ children["c1"].owner = g.current_user_id

(* The response of add_child to a failed code generation *)
PartialFailureResponse ==
    Message(500, "Child profile created, but linking code generation failed.")

(* C14: Partial failure is distinguishable.  When the store answered 201 with
   a child_id and the response is not the 201, the code generation failed:
   the response is 500 with the message that the child profile was created
   but the code generation failed, it carries no child_id and no
   linking_code, and the child stays in the store.  No other response of the
   create route carries that message, and no response but the 201 carries a
   child_id or a linking code. *)
PartialFailureDistinguishable ==
    (pc = "done" /\ req.route = "add_child")
        => /\ (Len(replies) = 1 /\ CreatedChild(replies[1]) /\ resp.status # 201)
                 => /\ resp = PartialFailureResponse
                    /\ Exists(replies[1].body.child_id)
                    /\ resp.body.linking_code \notin codes
           /\ resp.body.message = PartialFailureResponse.body.message
                 => Len(replies) = 1 /\ CreatedChild(replies[1])
           /\ resp.status # 201
                 => resp.body.child_id = Null /\ resp.body.linking_code = NoToken

(* The store created the child, the signing failed and the parent is told so;
   the child is in the store and no code for it exists *)
PartialFailureWitness ==
    /\ pc = "done"
    /\ req.route = "add_child"
    /\ resp = PartialFailureResponse
    /\ Exists("c1")
    /\ codes = {}

(* The store answered the create call with a status other than 201 *)
CreateRejected ==
    /\ pc = "done"
    /\ req.route = "add_child"
    /\ Len(replies) = 1
    /\ replies[1].net = "ok"
    /\ replies[1].status # 201

(* The store's error message: the message of its JSON object, else the text
   of its body *)
StoreMessage(reply) ==
    IF reply.body.kind = "object" /\ reply.body.message # NoMsg
    THEN reply.body.message
    ELSE Msg(reply.body.text)

(* C15 as stated: a rejected create is answered with the store's status and
   the store's error message verbatim, and no code is generated *)
CreateRejectionVerbatim ==
    CreateRejected
        => /\ resp.status = replies[1].status
           /\ resp.body.message = StoreMessage(replies[1])
           /\ resp.body.linking_code = NoToken

CreateFailed == "Failed to create child profile via database service."

(* C15 amended: a rejected create is answered with the store's status and
   the message "Failed to create child profile via database service."
   followed by " Reason: " and the store's message verbatim (the raw body
   text when its JSON object has no message), or by " Status: " and the
   status code when the store's body is not a JSON object; no code is
   generated and none is in the response. *)
CreateRejectionRelay ==
    /\ CreateRejected
          => /\ resp.status = replies[1].status
             /\ resp.by = "app"
             /\ resp.body.message =
                   (IF replies[1].body.kind # "object"
                    THEN MsgStatus(CreateFailed, replies[1].status)
                    ELSE IF replies[1].body.message # NoMsg
                    THEN MsgReason(CreateFailed, replies[1].body.message.text)
                    ELSE MsgReason(CreateFailed, RawJson))
             /\ resp.body.linking_code = NoToken
             /\ resp.body.child_id = Null
    /\ \A k \in codes : Exists(k.payload.child_id)

(* The store turns a create down with a message and the parent gets its
   status and that message as the reason *)
CreateRejectionWitness ==
    /\ CreateRejected
    /\ replies[1].status = 400
    /\ replies[1].body.message = Msg("Could not create child")
    /\ resp.status = 400
    /\ resp.body.message = MsgReason(CreateFailed, "Could not create child")

(* The store could not be reached: connection refused, or timed out *)
Unreachable == {"ConnectionError", "TimeoutError"}

(* The 503 message of the route for its n-th store call *)
UnavailableMsg(route, n) ==
    IF route # "update_child" THEN "Error communicating with database service"
    ELSE IF n = 1 THEN "Error communicating with database service for authorization"
    ELSE "Error communicating with database service for update"

(* C16: Backend unavailable.  On every forwarding route (create, link, get,
   list, and the pre-check and the PUT of update) a store call that fails by
   connection refusal or timeout ends the request with the handler's own 503
   and a {message} body; no exception leaves the handler and no further call
   is made. *)
BackendUnavailable ==
    \A i \in 1 .. Len(replies) :
        replies[i].net \in Unreachable
            => /\ i = Len(replies)
               /\ Len(calls) = i
               /\ pc = "done"
               /\ resp.by = "app"
               /\ resp = Message(503, UnavailableMsg(req.route, i))

(* The PUT of an update times out after the pre-check went through *)
BackendUnavailableWitness ==
    /\ pc = "done"
    /\ req.route = "update_child"
    /\ Len(replies) = 2
    /\ replies[1].status = 200
    /\ replies[2].net = "TimeoutError"
    /\ resp.status = 503

(* The store calls a route makes, in order *)
StoreCalls(route) ==
    IF route = "add_child" THEN <<"create">>
    ELSE IF route = "link_supervisor" THEN <<"link">>
    ELSE IF route = "get_child" THEN <<"get">>
    ELSE IF route = "get_children_list" THEN <<"list">>
    ELSE IF route = "update_child" THEN <<"get", "update">>
    ELSE <<>>

(* The call failed: no answer, or an error status *)
Failed(reply) == reply.net \in NetErrors \/ reply.status >= 400

(* C17: No inline retry.  Within one request the store calls made are a
   prefix of the route's calls: at most one for create, link, get and list,
   at most two for update, the pre-check GET and then the PUT; every call has
   at most one answer, and a call that failed is the last one made. *)
NoInlineRetry ==
    pc # "idle"
        => /\ Len(calls) <= Len(StoreCalls(req.route))
           /\ \A i \in 1 .. Len(calls) : calls[i].op = StoreCalls(req.route)[i]
           /\ Len(replies) <= Len(calls)
           /\ Len(calls) <= Len(replies) + 1
           /\ \A i \in 1 .. Len(replies) : Failed(replies[i]) => Len(calls) = i
           /\ pc = "done" => Len(replies) = Len(calls)

(* The PUT of an update failed with a 500 and was not sent again *)
NoInlineRetryWitness ==
    /\ pc = "done"
    /\ req.route = "update_child"
    /\ Len(calls) = 2
    /\ replies[1].status = 200
    /\ replies[2].status = 500
    /\ resp.status = 500

(* C18: Token passthrough.  Every call forwarded to the store carries the
   very token of the request's Authorization header, the one token_required
   validated and put into flask.g: an access token, never another caller's,
   a re-minted one or the linking code of the body. *)
TokenPassthrough ==
    \A i \in 1 .. Len(calls) :
        /\ req.header.kind = "bearer"
        /\ calls[i].token = req.header.token
        /\ calls[i].token = g.current_user_token
        /\ calls[i].token.payload.type = "access"
        /\ ~BadSignature(calls[i].token)
        /\ calls[i].token # req.body.linking_code

(* The PUT of an update goes out under the caller's token *)
TokenPassthroughWitness ==
    /\ pc = "wait"
    /\ req.route = "update_child"
    /\ Len(calls) = 2
    /\ calls[2].op = "update"
    /\ calls[2].token = req.header.token
    /\ calls[1].token = req.header.token

(* A link-supervisor request by a teacher that names a handed-out code
   before the code's expiry *)
PresentsValidCode ==
    /\ NamesCode
    /\ Authenticated
    /\ g.current_user_role = "teacher"
    /\ req.body.linking_code \in codes
    /\ at < Expiry(req.body.linking_code)

(* C19: No single-use enforcement.  A teacher's link request that names a
   handed-out, unexpired code is forwarded to the store for the code's child
   whoever was linked to that child before, this teacher or another; it is
   never answered with the gateway's own 400; and no link-supervisor request
   changes the codes, the configuration or, before the store is called, the
   store's records. *)
NoSingleUse ==
    /\ [](PresentsValidCode
            => /\ Len(calls) = 1
               /\ calls[1].op = "link"
               /\ calls[1].child_id = req.body.linking_code.payload.child_id
               /\ calls[1].supervisor_id = g.current_user_id
               /\ resp # Message(400, "Invalid or expired linking code"))
    /\ [][(pc = "idle" /\ req'.route = "link_supervisor")
            => (codes' = codes /\ config' = config /\ children' = children)]_vars
    /\ [][(req.route = "link_supervisor")
            => (codes' = codes /\ config' = config)]_vars

(* A second teacher presents the code that linked the first one, and the
   link request goes out again, for the same child *)
NoSingleUseWitness ==
    /\ pc = "wait"
    /\ PresentsValidCode
    /\ g.current_user_id = "t2"
    /\ calls[1].child_id = "c1"
    /\ children["c1"].supervisor_ids = {"t1"}

(* C20: Fixed validity window.  The expiry of a generated code is its iat
   plus the validity window; the code verifies to its child at every instant
   from its iat to that expiry and fails at every instant from it on.  No
   step, whether it generates a further code for the same or another child,
   links a supervisor, reads a child or lets time pass, removes a code or
   changes what its verification yields at any instant.  A link request that names an expired
   code is turned down at every later instant. *)
FixedValidityWindow ==
    /\ [](\A k \in codes :
            /\ k.payload.exp = k.payload.iat + LINKING_CODE_EXPIRATION
            /\ \A t \in Instants :
                  /\ (k.payload.iat * TicksPerSecond <= t /\ t < Expiry(k))
                        => verify_linking_code(k, t) = k.payload.child_id
                  /\ t >= Expiry(k) => verify_linking_code(k, t) = Null)
    /\ [][\A k \in codes :
            /\ k \in codes'
            /\ \A t \in Instants :
                  verify_linking_code(k, t)' = verify_linking_code(k, t)]_vars
    /\ []((NamesCode /\ Authenticated /\ g.current_user_role = "teacher"
              /\ req.body.linking_code \in codes /\ at >= Expiry(req.body.linking_code))
            => /\ pc = "done"
               /\ calls = <<>>
               /\ resp = Message(400, "Invalid or expired linking code"))

(* A code has expired and is turned down, after a teacher was linked with
   it and a second code was generated for the child *)
FixedValidityWindowWitness ==
    /\ pc = "done"
    /\ req.route = "link_supervisor"
    /\ req.body.linking_code \in codes
    /\ at >= Expiry(req.body.linking_code)
    /\ resp.status = 400
    /\ \E k \in codes :
          /\ k.payload.child_id = req.body.linking_code.payload.child_id
          /\ k.payload.iat > req.body.linking_code.payload.iat
    /\ children[req.body.linking_code.payload.child_id].supervisor_ids # {}

(* What a relaying handler returns for an answer of the store: the status,
   with the JSON body as it came, or {"message": text} when it is not JSON *)
Relayed(reply) ==
    IF reply.body.kind = "text"
    THEN Message(reply.status, reply.body.text)
    ELSE Response(reply.status, reply.body)

ReadRoutes == {"get_child", "get_children_list"}

(* C21: Read delegation.  On GET /profiles/children/{id} and GET
   /profiles/children every authenticated caller, whatever the role, has
   exactly one read forwarded to the store, for the child of the path and
   under the caller's token; when the store answers, the response is its
   status and body unchanged, {"message": raw text} when the body is not
   JSON. *)
ReadDelegation ==
    (req.route \in ReadRoutes /\ Authenticated)
        => /\ Len(calls) = 1
           /\ calls[1] = Call(IF req.route = "get_child" THEN "get" ELSE "list",
                              req.child_id, req.header.token, Null, NullBody)
           /\ (pc = "done" /\ replies[1].net = "ok") => resp = Relayed(replies[1])

(* A teacher who is not linked to the child reads it and gets the store's
   403 *)
ReadDelegationWitness ==
    /\ pc = "done"
    /\ req.route = "get_child"
    /\ g.current_user_role = "teacher"
    /\ Exists(req.child_id)
    /\ g.current_user_id \notin children[req.child_id].supervisor_ids
    /\ replies[1] = StoreJson(403, "Forbidden")
    /\ resp = Response(403, replies[1].body)

(* C22: No unhandled fault.  Every authenticated request, whatever its body
   and whatever the store does, ends with a response the handler itself
   built: no exception leaves the view function for Flask to answer. *)
NoUnhandledFault ==
    (Authenticated /\ pc = "done") => (resp.by = "app" /\ resp.status # 0)

(* C24: Update forwarding.  When the pre-check GET of an update is answered
   with a 2xx status the PUT is sent; the PUT carries exactly the body of the
   request, no key added, dropped or renamed, for exactly the child of the
   request path and under the caller's token; when the store answers the PUT,
   the response is its status and body unchanged, {"message": raw text} when
   the body is not JSON. *)
UpdateForwarding ==
    (req.route = "update_child" /\ Authenticated)
        => /\ (Len(replies) >= 1 /\ replies[1].net = "ok"
                  /\ replies[1].status \in 200 .. 299) => Len(calls) = 2
           /\ Len(calls) = 2
                 => calls[2] = Call("update", req.child_id, req.header.token, Null, req.body)
           /\ (pc = "done" /\ Len(replies) = 2 /\ replies[2].net = "ok")
                 => resp = Relayed(replies[2])

(* The owner updates the child with a body that has a key the create route
   would not forward; the store gets the body as it came and its 200 is
   returned *)
UpdateForwardingWitness ==
    /\ pc = "done"
    /\ req.route = "update_child"
    /\ req.body = ObjectBody({"notes", "parent_id"})
    /\ Len(calls) = 2
    /\ calls[2].data = req.body
    /\ calls[2].child_id = req.child_id
    /\ replies[2] = StoreJson(200, "Child updated successfully")
    /\ resp = Response(200, replies[2].body)
    /\ children[req.child_id].data = {"notes", "parent_id"}

LinkFailed == "Failed to link supervisor via database service."

(* C25: Link failure relay.  When the store answers a forwarded link request
   with a status other than 200 the response has that status and no
   child_id; its message is the child-not-found message on a 404, otherwise
   it carries the store's message as the reason given after the handler's
   text, or the status when the store's body is not JSON.  The body with
   "Supervisor linked successfully" and the child_id is returned on a store
   200 and on nothing else. *)
LinkFailureRelay ==
    /\ (pc = "done" /\ req.route = "link_supervisor" /\ Len(replies) = 1
           /\ replies[1].net = "ok" /\ replies[1].status # 200)
          => /\ resp.status = replies[1].status
             /\ resp.by = "app"
             /\ resp.body.child_id = Null
             /\ resp.body.message =
                   (IF replies[1].status = 404
                    THEN Msg("Failed to link supervisor: Child not found.")
                    ELSE IF replies[1].body.kind # "object"
                    THEN MsgStatus(LinkFailed, replies[1].status)
                    ELSE MsgReason(LinkFailed, StoreMessage(replies[1]).text))
    /\ (pc = "done" /\ req.route = "link_supervisor"
           /\ (resp.body.child_id # Null \/ resp.status = 200))
          => /\ Len(replies) = 1
             /\ replies[1].net = "ok"
             /\ replies[1].status = 200
             /\ resp = Response(200, JsonBody(Msg("Supervisor linked successfully"),
                                              calls[1].child_id, NoToken, NoRecord))

(* The store no longer has the child of a valid code and the teacher gets
   its 404 with the child-not-found message *)
LinkFailureRelayWitness ==
    /\ pc = "done"
    /\ PresentsValidCode
    /\ replies[1] = StoreJson(404, "Child not found")
    /\ resp = Message(404, "Failed to link supervisor: Child not found.")

(* C26: Pre-check status class.  In update_child the PUT goes to the store
   only after the pre-check GET of the same request was answered with a 2xx
   status; an answer with any status outside 200..299 ends the request
   without a PUT. *)
PrecheckStatusClass ==
    /\ (req.route = "update_child" /\ Len(calls) = 2)
          => (replies[1].net = "ok" /\ replies[1].status \in 200 .. 299)
    /\ (req.route = "update_child" /\ Len(replies) >= 1 /\ replies[1].net = "ok"
           /\ replies[1].status \notin 200 .. 299)
          => (pc = "done" /\ Len(calls) = 1)

(* The request in flight went past the role gate of its route *)
PassedRoleGate ==
    /\ Authenticated
    /\ req.route = "add_child" => g.current_user_role = "parent"
    /\ req.route = "link_supervisor" => g.current_user_role = "teacher"

(* The body does not have what the route requires: a create without the
   fields name and birthday, a link without a non-empty linking_code, an
   update with an empty or missing body *)
InvalidBody ==
    \/ /\ req.route = "add_child"
       /\ ~(req.body.kind = "object" /\ {"name", "birthday"} \subseteq req.body.keys)
    \/ /\ req.route = "link_supervisor"
       /\ ~(req.body.kind = "object" /\ "linking_code" \in req.body.keys
               /\ ~Falsy(req.body.linking_code))
    \/ /\ req.route = "update_child"
       /\ FalsyBody(req.body)

(* C27: Validation precedes forwarding.  A request that went past the
   authentication and role gates and whose body does not have what the route
   requires is answered 400 by the handler and causes no call to the store,
   for an update not even the pre-check GET. *)
ValidationPrecedesForwarding ==
    (PassedRoleGate /\ InvalidBody)
        => /\ pc = "done"
           /\ resp.status = 400
           /\ resp.by = "app"
           /\ calls = <<>>
           /\ replies = <<>>

(* The identity the request carries in flask.g and in its store calls is the
   one of its own Authorization header *)
OwnIdentity(c) ==
    /\ c.ran => c.g = [current_user_id |-> c.req.header.token.payload.sub,
                       current_user_role |-> c.req.header.token.payload.role,
                       current_user_token |-> c.req.header.token]
    /\ ~c.ran => c.g = NoUser
    /\ \A i \in 1 .. Len(c.calls) :
          /\ c.calls[i].token = c.req.header.token
          /\ c.calls[i].op = "link"
                => c.calls[i].supervisor_id = c.req.header.token.payload.sub
          /\ c.calls[i].op \in {"get", "update"} => c.calls[i].child_id = c.req.child_id

(* Two requests with the same header, path and body, received at the same
   clock, whose store calls were given the same answers *)
SameInputs(a, b) == a.req = b.req /\ a.at = b.at /\ a.replies = b.replies

(* C23: Request independence under concurrency.  With two requests in
   flight, in any interleaving of their steps: the configuration is never
   changed; each request's flask.g and the token, supervisor and child of
   its store calls are those of its own header and path; a request's store
   calls and response are a function of its own header, path and body, the
   clock at its receipt and the store's answers to its own calls, two
   requests alike in these being alike in all; and a step of one request
   leaves the context of the other as it was. *)
RequestIndependence ==
    /\ [](OwnIdentity(Mine) /\ OwnIdentity(other))
    /\ [](SameInputs(Mine, other) => Mine = other)
    /\ [][config' = config]_vars
    /\ [][other' = other \/ (other' = Mine /\ Mine' = other)]_vars

(* An update of p1, its PUT sent, and a link of t1 are in flight together,
   each with its own identity in its store calls *)
RequestIndependenceWitness ==
    /\ pc = "wait"
    /\ other.pc = "wait"
    /\ req.route = "update_child"
    /\ Len(calls) = 2
    /\ g.current_user_id = "p1"
    /\ calls[2].token = AccessToken("p1", "parent", FarFuture)
    /\ other.req.route = "link_supervisor"
    /\ other.g.current_user_id = "t1"
    /\ other.calls[1].supervisor_id = "t1"
    /\ other.calls[1].token = AccessToken("t1", "teacher", FarFuture)

====
